---- MODULE Spec2Model ----
(***************************************************************************)
(* The cribbage host: game.py (cards, pegging, show scoring) and server.py *)
(* (the CribbageServer that turns client messages into game operations).   *)
(*                                                                         *)
(* A card is its index 0..51 in the list Deck.__init__ builds              *)
(* (suit-major: index = 13 * suit position + rank position).  The string   *)
(* str(card) that pegging_cards holds is one-to-one with the card, so the  *)
(* model keeps the index and reads the rank back with get_card_rank.       *)
(*                                                                         *)
(* Handlers are operators on a record s holding every field of the server *)
(* and of its Game; an action applies one handler, with everything it      *)
(* calls, to the current state and stores the result.                      *)
(***************************************************************************)
EXTENDS Integers, Sequences, FiniteSets, TLC

None == -1

\* ------------------------------------------------------------------ bounds
\* The ids the connection handler hands out (two clients join the host).
Seats == {0, 1}
\* At most this many events beyond the straight line of a round (each seat
\* discards once, then cards are played): a go sent by a client, a repeated
\* or late discard, a play or go before the discards are in, a start while
\* a game exists, a disconnection.
MaxExtra == 2
\* At most this many commands are applied in one behaviour.
MaxSteps == 11
\* Shuffles the deck may come out of, as pairs <<a, b>>: the list position
\* i (from 0) holds card (a * ((i + b) % 52 + 1)) % 53 - 1.
Shuffles == {<<43, 21>>}
\* Inputs the clients send.
DiscardChoices == {<<0, 1>>, <<4, 5>>}
PlayIndices == {-1, 0}
\* Scores of a session already some rounds old (see InitLate).
LateScores == {<<118, 118>>}

\* ------------------------------------------------------------------ cards
SUITS == <<"H", "D", "C", "S">>
RANKS == <<"A", "2", "3", "4", "5", "6", "7", "8", "9", "10", "J", "Q", "K">>

VALUES(rank) ==
    CASE rank = "A" -> 1
      [] rank = "2" -> 2
      [] rank = "3" -> 3
      [] rank = "4" -> 4
      [] rank = "5" -> 5
      [] rank = "6" -> 6
      [] rank = "7" -> 7
      [] rank = "8" -> 8
      [] rank = "9" -> 9
      [] rank \in {"10", "J", "Q", "K"} -> 10

CardRank(c) == RANKS[(c % 13) + 1]
CardSuit(c) == SUITS[(c \div 13) + 1]

\* Deck.__init__ before the shuffle.
NewDeckCards == [i \in 1..52 |-> i - 1]

\* random.shuffle: one of the permutations in Shuffles.
ShuffledDeck(sh) ==
    [i \in 1..52 |-> NewDeckCards[(sh[1] * ((((i - 1) + sh[2]) % 52) + 1)) % 53]]

\* Deck.deal: pop num cards off the end, one at a time.
DeckDeal(cards, num) ==
    [dealt |-> [i \in 1..num |-> cards[Len(cards) + 1 - i]],
     rest  |-> SubSeq(cards, 1, Len(cards) - num)]

rank_to_num(rank) ==
    IF rank = "A" THEN 1
    ELSE IF rank \in {"2", "3", "4", "5", "6", "7", "8", "9", "10"}
         THEN CASE rank = "2" -> 2 [] rank = "3" -> 3 [] rank = "4" -> 4
                [] rank = "5" -> 5 [] rank = "6" -> 6 [] rank = "7" -> 7
                [] rank = "8" -> 8 [] rank = "9" -> 9 [] rank = "10" -> 10
         ELSE IF rank = "J" THEN 11 ELSE IF rank = "Q" THEN 12 ELSE 13

get_card_value(card) == VALUES(CardRank(card))

\* The rank part of str(card): the string without its last character.
get_card_rank(card_str) == CardRank(card_str)

\* ------------------------------------------------------------------ helpers
RECURSIVE SumOver(_, _)
SumOver(f, S) ==
    IF S = {} THEN 0
    ELSE LET x == CHOOSE y \in S : TRUE IN f[x] + SumOver(f, S \ {x})

RECURSIVE ProdOver(_, _)
ProdOver(f, S) ==
    IF S = {} THEN 1
    ELSE LET x == CHOOSE y \in S : TRUE IN f[x] * ProdOver(f, S \ {x})

SetMax(S) == CHOOSE x \in S : \A y \in S : y <= x
SetMin(S) == CHOOSE x \in S : \A y \in S : x <= y

RemoveAt(seq, i) == SubSeq(seq, 1, i - 1) \o SubSeq(seq, i + 1, Len(seq))

\* sorted(S) for a set of integers.
RECURSIVE SortedSeq(_)
SortedSeq(S) ==
    IF S = {} THEN <<>>
    ELSE LET m == SetMin(S) IN <<m>> \o SortedSeq(S \ {m})

\* sorted(indices, reverse=True) for a list of integers.
RECURSIVE SortedReverse(_)
SortedReverse(seq) ==
    IF Len(seq) = 0 THEN <<>>
    ELSE LET m == SetMax({seq[i] : i \in 1..Len(seq)})
             k == CHOOSE i \in 1..Len(seq) : seq[i] = m
         IN <<m>> \o SortedReverse(RemoveAt(seq, k))

\* ------------------------------------------------------------------ show scoring
count_fifteens(cards) ==
    LET values == [i \in 1..Len(cards) |-> VALUES(CardRank(cards[i]))]
        combos == {c \in SUBSET (1..Len(cards)) : c # {} /\ SumOver(values, c) = 15}
    IN Cardinality(combos) * 2

count_pairs(cards) ==
    LET present == {CardRank(cards[i]) : i \in 1..Len(cards)}
        ranks == [r \in present |-> Cardinality({i \in 1..Len(cards) : CardRank(cards[i]) = r})]
        gain == [r \in present |-> IF ranks[r] >= 2
                                   THEN ((ranks[r] * (ranks[r] - 1)) \div 2) * 2 ELSE 0]
    IN SumOver(gain, present)

\* count_runs that also counts the pairs inside the run.
count_runs_with_pairs(cards) ==
    IF Len(cards) < 3 THEN 0
    ELSE
    LET nums == {rank_to_num(CardRank(cards[i])) : i \in 1..Len(cards)}
        rank_counts == [n \in nums |->
            Cardinality({i \in 1..Len(cards) : rank_to_num(CardRank(cards[i])) = n})]
        segments == {seg \in nums \X nums :
                        /\ seg[1] <= seg[2]
                        /\ \A n \in seg[1]..seg[2] : n \in nums
                        /\ (seg[1] - 1) \notin nums
                        /\ (seg[2] + 1) \notin nums
                        /\ seg[2] - seg[1] + 1 >= 3}
    IN IF segments = {} THEN 0
       ELSE LET max_length == SetMax({seg[2] - seg[1] + 1 : seg \in segments})
                gain == [seg \in segments |->
                    IF seg[2] - seg[1] + 1 # max_length THEN 0
                    ELSE (seg[2] - seg[1] + 1) * ProdOver(rank_counts, seg[1]..seg[2])
                         + SumOver([n \in seg[1]..seg[2] |->
                                       rank_counts[n] * (rank_counts[n] - 1)],
                                   seg[1]..seg[2])]
            IN SumOver(gain, segments)

count_runs(cards) ==
    IF Len(cards) < 3 THEN 0
    ELSE
    LET nums == {rank_to_num(CardRank(cards[i])) : i \in 1..Len(cards)}
        rank_counts == [n \in nums |->
            Cardinality({i \in 1..Len(cards) : rank_to_num(CardRank(cards[i])) = n})]
        \* maximal stretches of consecutive numbers, kept when 3 or longer
        segments == {seg \in nums \X nums :
                        /\ seg[1] <= seg[2]
                        /\ \A n \in seg[1]..seg[2] : n \in nums
                        /\ (seg[1] - 1) \notin nums
                        /\ (seg[2] + 1) \notin nums
                        /\ seg[2] - seg[1] + 1 >= 3}
    IN IF segments = {} THEN 0
       ELSE LET max_length == SetMax({seg[2] - seg[1] + 1 : seg \in segments})
                gain == [seg \in segments |->
                    IF seg[2] - seg[1] + 1 # max_length THEN 0
                    ELSE (seg[2] - seg[1] + 1) * ProdOver(rank_counts, seg[1]..seg[2])]
            IN SumOver(gain, segments)

score_show_cards(cards) ==
    IF Len(cards) = 0 THEN 0
    ELSE count_fifteens(cards) + count_pairs(cards) + count_runs(cards)

\* ------------------------------------------------------------------ Game
\* Game.__init__ (the deck it builds is shuffled by sh).
NewGame(n, sh) ==
    [num_players |-> n,
     hand |-> [p \in 0..(n - 1) |-> <<>>],
     score |-> [p \in 0..(n - 1) |-> 0],
     deck |-> ShuffledDeck(sh),
     crib |-> <<>>,
     starter |-> None,
     current_player |-> 0,
     pegging_total |-> 0,
     pegging_cards |-> <<>>,
     last_played_player |-> None,
     players_passed |-> {},
     last_card_bonus_awarded |-> FALSE,
     show_hands |-> <<>>,
     dealer |-> 0]

\* The value of the game fields while server.game is None.
NoGame == NewGame(0, <<1, 0>>)

\* Game.prepare_round is called by start_round and is not in game.py; this is
\* begin_round of the design: per-round fields reset, dealer set, a fresh
\* shuffled deck, the first actor the player after the dealer.
prepare_round(g, dealer, sh) ==
    LET d == IF dealer = None THEN g.dealer ELSE dealer IN
    [g EXCEPT !.dealer = d,
              !.deck = ShuffledDeck(sh),
              !.crib = <<>>,
              !.starter = None,
              !.pegging_total = 0,
              !.pegging_cards = <<>>,
              !.last_played_player = None,
              !.players_passed = {},
              !.last_card_bonus_awarded = FALSE,
              !.current_player = (d + 1) % g.num_players]

RECURSIVE DealHands(_, _, _)
DealHands(g, p, cards_per_player) ==
    IF p >= g.num_players THEN g
    ELSE LET d == DeckDeal(g.deck, cards_per_player)
         IN DealHands([g EXCEPT !.hand[p] = d.dealt, !.deck = d.rest],
                      p + 1, cards_per_player)

deal_cards(g) ==
    LET cards_per_player == IF g.num_players = 2 THEN 6 ELSE 5
    IN [DealHands(g, 0, cards_per_player) EXCEPT !.last_card_bonus_awarded = FALSE]

set_starter(g) ==
    LET d == DeckDeal(g.deck, 1)
    IN [g EXCEPT !.starter = d.dealt[1], !.deck = d.rest]

\* Player.discard.  hand[i] is read for every index before anything is
\* deleted, so an index past the end raises with the hand untouched.
DiscardRaises(hand, indices) ==
    \E k \in 1..Len(indices) : indices[k] >= Len(hand) \/ indices[k] < -Len(hand)

RECURSIVE DeleteAll(_, _)
DeleteAll(hand, order) ==
    IF Len(order) = 0 THEN hand
    ELSE DeleteAll(RemoveAt(hand, order[1] + 1), Tail(order))

\* Player.discard that hands the cards over and leaves them in the hand.
Player_discard_keeps(hand, indices) ==
    LET order == SortedReverse(indices)
    IN [discarded |-> [k \in 1..Len(order) |-> hand[order[k] + 1]],
        hand |-> hand]

Player_discard(hand, indices) ==
    LET order == SortedReverse(indices)
    IN [discarded |-> [k \in 1..Len(order) |-> hand[order[k] + 1]],
        hand |-> DeleteAll(hand, order)]

capture_show_hands(g) ==
    [g EXCEPT !.show_hands = [pid \in 0..(g.num_players - 1) |-> g.hand[pid]]]

\* Game.collect_discards over the dict's items in insertion order; the
\* result says whether Player.discard raised part-way (the discards before it
\* are applied, the snapshot is not taken).
RECURSIVE CollectFrom(_, _, _)
CollectFrom(g, discards, k) ==
    IF k > Len(discards) THEN [g |-> capture_show_hands(g), raised |-> FALSE]
    ELSE LET pid == discards[k].pid
             indices == discards[k].indices
         IN IF DiscardRaises(g.hand[pid], indices) THEN [g |-> g, raised |-> TRUE]
            ELSE LET d == Player_discard(g.hand[pid], indices)
                 IN CollectFrom([g EXCEPT !.hand[pid] = d.hand,
                                          !.crib = g.crib \o d.discarded],
                                discards, k + 1)

collect_discards(g, discards) == CollectFrom(g, discards, 1)

\* can_play_card without the cap: any card of the hand may be played.
can_play_card_nocap(g, player_id, card_index) ==
    ~(card_index < 0 \/ card_index >= Len(g.hand[player_id]))

can_play_card(g, player_id, card_index) ==
    IF card_index < 0 \/ card_index >= Len(g.hand[player_id]) THEN FALSE
    ELSE g.pegging_total + get_card_value(g.hand[player_id][card_index + 1]) <= 31

has_playable_card(g, player_id) ==
    \E idx \in 0..(Len(g.hand[player_id]) - 1) : can_play_card(g, player_id, idx)

is_pegging_over(g) == \A p \in 0..(g.num_players - 1) : Len(g.hand[p]) = 0

is_game_over(g) == \E p \in 0..(g.num_players - 1) : g.score[p] >= 121

\* Game.calculate_pegging_points, on the state after the card was appended.
PairCount(cards) ==
    LET n == Len(cards)
        last_rank == get_card_rank(cards[n])
        \* the cards before the last one, walked backwards until a rank differs
        same == {k \in 1..(n - 1) :
                    \A j \in (n - k)..(n - 1) : get_card_rank(cards[j]) = last_rank}
    IN 1 + Cardinality(same)

IsRunTail(cards, length) ==
    LET n == Len(cards)
        nums == {rank_to_num(get_card_rank(cards[i])) : i \in (n - length + 1)..n}
    IN /\ Cardinality(nums) = length
       /\ SetMax(nums) - SetMin(nums) = length - 1

\* The run points taken from the shortest trailing run instead of the
\* longest.
RunPoints_shortest(cards) ==
    LET lengths == {l \in 3..Len(cards) : IsRunTail(cards, l)}
    IN IF lengths = {} THEN 0 ELSE SetMin(lengths)

RunPoints(cards) ==
    LET lengths == {l \in 3..Len(cards) : IsRunTail(cards, l)}
    IN IF lengths = {} THEN 0 ELSE SetMax(lengths)

calculate_pegging_points(g) ==
    (IF g.pegging_total = 15 \/ g.pegging_total = 31 THEN 2 ELSE 0)
    + (IF Len(g.pegging_cards) >= 2 /\ PairCount(g.pegging_cards) >= 2
       THEN 2 * (PairCount(g.pegging_cards) - 1) ELSE 0)
    + RunPoints(g.pegging_cards)

\* Game.play_card up to its call of calculate_pegging_points: the card leaves
\* the hand and joins the count.
PlaceCard(g, player_id, card_index) ==
    [g EXCEPT !.hand[player_id] = RemoveAt(@, card_index + 1),
              !.pegging_total = @ + get_card_value(g.hand[player_id][card_index + 1]),
              !.pegging_cards = Append(@, g.hand[player_id][card_index + 1])]

\* The last-card test without the exception for a total of 31.
LastCardBonus_at31(g1) ==
    is_pegging_over(g1) /\ ~g1.last_card_bonus_awarded

\* The last-card test of Game.play_card, on the game with the card placed.
LastCardBonus(g1) ==
    is_pegging_over(g1) /\ g1.pegging_total # 31 /\ ~g1.last_card_bonus_awarded

\* Game.play_card from the scoring on, with the pass set left as it was.
ScorePlay_keeps_passes(g1, player_id, card, base) ==
    [g |-> [g1 EXCEPT !.last_card_bonus_awarded = IF LastCardBonus(g1) THEN TRUE ELSE @,
                      !.last_played_player = player_id],
     card |-> card,
     points |-> base + (IF LastCardBonus(g1) THEN 1 ELSE 0),
     base |-> base,
     was_last_card |-> is_pegging_over(g1),
     bonus |-> LastCardBonus(g1)]

\* Game.play_card from there on; base is what calculate_pegging_points gave.
ScorePlay(g1, player_id, card, base) ==
    [g |-> [g1 EXCEPT !.last_card_bonus_awarded = IF LastCardBonus(g1) THEN TRUE ELSE @,
                      !.last_played_player = player_id,
                      !.players_passed = {}],
     card |-> card,
     points |-> base + (IF LastCardBonus(g1) THEN 1 ELSE 0),
     base |-> base,
     was_last_card |-> is_pegging_over(g1),
     bonus |-> LastCardBonus(g1)]

\* Game.play_card: the game after the play, the card and the points.
play_card(g, player_id, card_index) ==
    ScorePlay(PlaceCard(g, player_id, card_index), player_id,
              g.hand[player_id][card_index + 1],
              calculate_pegging_points(PlaceCard(g, player_id, card_index)))

\* Game.go whose sub-round end clears the pass set and keeps the count.
go_noreset(g, player_id) ==
    LET g1 == [g EXCEPT !.players_passed = @ \cup {player_id}]
        active_players == {pid \in 0..(g.num_players - 1) : Len(g.hand[pid]) > 0}
    IN IF active_players = {}
       THEN [g |-> [g1 EXCEPT !.players_passed = {}],
             ret |-> <<None, TRUE, TRUE, FALSE>>, total_before_reset |-> None]
       ELSE IF g1.last_played_player = None
       THEN [g |-> g1, ret |-> <<None, FALSE, FALSE, FALSE>>, total_before_reset |-> None]
       ELSE IF active_players \subseteq g1.players_passed
       THEN [g |-> [g1 EXCEPT !.players_passed = {}, !.last_card_bonus_awarded = FALSE],
             ret |-> <<g1.last_played_player, TRUE, is_pegging_over(g1),
                       g1.pegging_total # 31 /\ is_pegging_over(g1)>>,
             total_before_reset |-> g1.pegging_total]
       ELSE [g |-> g1, ret |-> <<None, FALSE, FALSE, FALSE>>, total_before_reset |-> None]

\* Game.go whose sub-round end resets the total and keeps the sequence.
go_keeps_cards(g, player_id) ==
    LET g1 == [g EXCEPT !.players_passed = @ \cup {player_id}]
        active_players == {pid \in 0..(g.num_players - 1) : Len(g.hand[pid]) > 0}
    IN IF active_players = {}
       THEN [g |-> [g1 EXCEPT !.players_passed = {}],
             ret |-> <<None, TRUE, TRUE, FALSE>>, total_before_reset |-> None]
       ELSE IF g1.last_played_player = None
       THEN [g |-> g1, ret |-> <<None, FALSE, FALSE, FALSE>>, total_before_reset |-> None]
       ELSE IF active_players \subseteq g1.players_passed
       THEN LET total_before_reset == g1.pegging_total
                g2 == [g1 EXCEPT !.pegging_total = 0,
                                 !.players_passed = {},
                                 !.last_card_bonus_awarded = FALSE]
                award_last_card == total_before_reset # 31 /\ is_pegging_over(g2)
            IN [g |-> g2,
                ret |-> <<g2.last_played_player, TRUE, is_pegging_over(g2), award_last_card>>,
                total_before_reset |-> total_before_reset]
       ELSE [g |-> g1, ret |-> <<None, FALSE, FALSE, FALSE>>, total_before_reset |-> None]

\* Game.go: the game after the pass and the 4-tuple it returns.
go(g, player_id) ==
    LET g1 == [g EXCEPT !.players_passed = @ \cup {player_id}]
        active_players == {pid \in 0..(g.num_players - 1) : Len(g.hand[pid]) > 0}
    IN IF active_players = {}
       THEN [g |-> [g1 EXCEPT !.players_passed = {}],
             ret |-> <<None, TRUE, TRUE, FALSE>>, total_before_reset |-> None]
       ELSE IF g1.last_played_player = None
       THEN [g |-> g1, ret |-> <<None, FALSE, FALSE, FALSE>>, total_before_reset |-> None]
       ELSE IF active_players \subseteq g1.players_passed
       THEN LET total_before_reset == g1.pegging_total
                g2 == [g1 EXCEPT !.pegging_total = 0,
                                 !.pegging_cards = <<>>,
                                 !.players_passed = {},
                                 !.last_card_bonus_awarded = FALSE]
                award_last_card == total_before_reset # 31 /\ is_pegging_over(g2)
            IN [g |-> g2,
                ret |-> <<g2.last_played_player, TRUE, is_pegging_over(g2), award_last_card>>,
                total_before_reset |-> total_before_reset]
       ELSE [g |-> g1, ret |-> <<None, FALSE, FALSE, FALSE>>, total_before_reset |-> None]

\* The point map of a show that scores the hands as they stand after
\* pegging instead of the snapshot.
ShowPoints_from_hands(g) ==
    [pid \in (DOMAIN g.show_hands) \cup (IF Len(g.crib) > 0 THEN {g.dealer} ELSE {}) |->
        (IF pid \in DOMAIN g.show_hands
         THEN score_show_cards(Append(g.hand[pid], g.starter)) ELSE 0)
        + (IF Len(g.crib) > 0 /\ pid = g.dealer
           THEN score_show_cards(Append(g.crib, g.starter)) ELSE 0)]

\* The point map Game.score_show_round builds: every snapshot hand with the
\* starter, and the crib with the starter for the dealer.
ShowPoints(g) ==
    [pid \in (DOMAIN g.show_hands) \cup (IF Len(g.crib) > 0 THEN {g.dealer} ELSE {}) |->
        (IF pid \in DOMAIN g.show_hands
         THEN score_show_cards(Append(g.show_hands[pid], g.starter)) ELSE 0)
        + (IF Len(g.crib) > 0 /\ pid = g.dealer
           THEN score_show_cards(Append(g.crib, g.starter)) ELSE 0)]

\* score_show_round that adds the points and leaves crib and snapshot in
\* place.
AddShowPoints_keeps(g, show_points) ==
    [g |-> [g EXCEPT !.score = [pid \in DOMAIN g.score |->
                                   IF pid \in DOMAIN show_points
                                   THEN g.score[pid] + show_points[pid]
                                   ELSE g.score[pid]]],
     show_points |-> show_points]

\* Game.score_show_round once the points are known: scores raised, crib and
\* snapshot cleared.
AddShowPoints(g, show_points) ==
    [g |-> [g EXCEPT !.score = [pid \in DOMAIN g.score |->
                                   IF pid \in DOMAIN show_points
                                   THEN g.score[pid] + show_points[pid]
                                   ELSE g.score[pid]],
                     !.crib = <<>>,
                     !.show_hands = <<>>],
     show_points |-> show_points]

\* Game.score_show_round: the game after it and the point map it returns.
score_show_round(g) ==
    IF g.starter = None THEN [g |-> g, show_points |-> <<>>]
    ELSE AddShowPoints(g, ShowPoints(g))

\* ------------------------------------------------------------------ CribbageServer
\* CribbageServer.__init__.
NewServer ==
    [connections |-> {},
     game |-> FALSE,
     next_player_id |-> 0,
     discards |-> <<>>,
     current_player |-> 0,
     game_over |-> FALSE]

\* What the last handler did, kept for the properties: the command and its
\* sender, how it ended, what play_card did (the points it returned, the
\* points of calculate_pegging_points alone, the total it left, whether it
\* emptied every hand), every sub-round end (scorer, total before the reset,
\* points added), the forced gos, the show, a new deal, the winner, and
\* whether the discards were collected over an existing snapshot.
NoEvent ==
    [cmd |-> "none", who |-> None, res |-> "none",
     play_points |-> None, play_base |-> None, play_total |-> None,
     last_card |-> FALSE, bonus |-> FALSE,
     ends |-> <<>>, autos |-> 0,
     show |-> FALSE, show_points |-> <<>>, round |-> FALSE, winner |-> None,
     recaptured |-> FALSE]

\* dict item assignment: a new key goes last, an old key keeps its place.
DictSet(discards, pid, indices) ==
    IF \E k \in 1..Len(discards) : discards[k].pid = pid
    THEN [k \in 1..Len(discards) |->
             IF discards[k].pid = pid THEN [pid |-> pid, indices |-> indices]
             ELSE discards[k]]
    ELSE Append(discards, [pid |-> pid, indices |-> indices])

start_round(s, dealer, sh) ==
    IF ~s.server.game \/ s.server.game_over THEN s
    ELSE LET g == set_starter(deal_cards(prepare_round(s.game, dealer, sh)))
         IN [s EXCEPT !.game = g,
                      !.server.discards = <<>>,
                      !.server.current_player = g.current_player,
                      !.ev.round = TRUE]

get_next_active_player(s, start, include_start) ==
    IF ~s.server.game \/ s.server.connections = {} THEN None
    ELSE
    LET player_ids == SortedSeq(s.server.connections)
        n == Len(player_ids)
        index == IF start = None \/ start \notin s.server.connections THEN 0
                 ELSE (CHOOSE k \in 1..n : player_ids[k] = start) - 1
        offsets == IF include_start THEN 0..(n - 1) ELSE 1..n
        hits == {offset \in offsets :
                    Len(s.game.hand[player_ids[((index + offset) % n) + 1]]) > 0}
    IN IF hits = {} THEN None
       ELSE player_ids[((index + SetMin(hits)) % n) + 1]

get_winner(s) ==
    IF ~s.server.game THEN None
    ELSE
    LET finalists == {p \in DOMAIN s.game.score : s.game.score[p] >= 121}
    IN IF finalists = {} THEN None
       ELSE LET max_score == SetMax({s.game.score[p] : p \in finalists})
                leaders == {p \in finalists : s.game.score[p] = max_score}
            IN IF s.game.dealer \in leaders THEN s.game.dealer
               ELSE SetMin(leaders)

end_game(s, winner_id) ==
    IF s.server.game_over THEN s
    ELSE [s EXCEPT !.server.game_over = TRUE,
                   !.server.current_player = None,
                   !.ev.winner = winner_id]

\* end_game_if_needed: the state after it; it returned True iff get_winner
\* of the state before is not None.
end_game_if_needed(s) ==
    IF get_winner(s) # None THEN end_game(s, get_winner(s)) ELSE s

\* finish_show_round that keeps the dealer for the next round.
finish_show_round_same_dealer(s, sh) ==
    IF get_winner(s) # None THEN end_game_if_needed(s)
    ELSE start_round(s, s.game.dealer, sh)

finish_show_round(s, sh) ==
    IF get_winner(s) # None THEN end_game_if_needed(s)
    ELSE start_round(s, (s.game.dealer + 1) % s.game.num_players, sh)

\* trigger_show_phase once score_show_round has returned r.
show_scored(s, r, sh) ==
    finish_show_round([s EXCEPT !.server.current_player = None,
                                !.game = r.g,
                                !.ev.show = TRUE,
                                !.ev.show_points = r.show_points], sh)

trigger_show_phase(s, sh) ==
    IF ~s.server.game THEN s
    ELSE show_scored(s, score_show_round(s.game), sh)

\* handle_go and maybe_auto_go call each other.  seen holds the
\* (player, players_passed) pairs at which this chain already forced a go:
\* meeting one again means the chain never ends, and Python ends it with
\* RecursionError, which unwinds to the connection handler.
RECURSIVE handle_go(_, _, _, _, _)

maybe_auto_go(s, sh, seen) ==
    IF ~s.server.game \/ s.server.current_player = None \/ s.server.game_over THEN s
    ELSE LET player_id == s.server.current_player IN
         IF Len(s.game.hand[player_id]) = 0 THEN s
         ELSE IF has_playable_card(s.game, player_id) THEN s
         ELSE IF <<player_id, s.game.players_passed>> \in seen
              THEN [s EXCEPT !.raised = TRUE]
              ELSE handle_go([s EXCEPT !.ev.autos = @ + 1], player_id, TRUE, sh,
                             seen \cup {<<player_id, s.game.players_passed>>})

\* The end of handle_play and of both branches of handle_go: the show when
\* it is due or get_next_active_player finds nobody, else the turn goes to
\* the player found and maybe_auto_go runs.
next_turn(s, show, start, include_start, sh, seen) ==
    IF show \/ get_next_active_player(s, start, include_start) = None
    THEN trigger_show_phase(s, sh)
    ELSE maybe_auto_go(
             [s EXCEPT !.server.current_player =
                           get_next_active_player(s, start, include_start)],
             sh, seen)

\* handle_go from Game.go to the first broadcast; r is what go returned.
\* True > 0, and score += True adds 1.
go_scored(s, r) ==
    LET scorer == r.ret[1]
        points_awarded == r.ret[2]
    IN IF scorer # None
       THEN [s EXCEPT !.game = [r.g EXCEPT !.score[scorer] =
                                               IF points_awarded THEN @ + 1 ELSE @],
                      !.ev.ends = Append(@, [scorer |-> scorer,
                                             total |-> r.total_before_reset,
                                             points |-> IF points_awarded THEN 1 ELSE 0])]
       ELSE [s EXCEPT !.game = r.g]

\* handle_go after that; ret is the tuple go returned.
after_go(s1, player_id, ret, sh, seen) ==
    LET scorer == ret[1]
        round_over == ret[3]
        show_phase == ret[4]
    IN IF scorer # None
       THEN next_turn(s1, show_phase, s1.game.last_played_player, TRUE, sh, seen)
       ELSE next_turn(s1, round_over /\ show_phase, player_id, FALSE, sh, seen)

handle_go(s, player_id, auto, sh, seen) ==
    IF s.server.game_over \/ ~s.server.game THEN [s EXCEPT !.ev.res = "ignored"]
    ELSE IF player_id # s.server.current_player THEN [s EXCEPT !.ev.res = "NotYourTurn"]
    ELSE after_go(go_scored(s, go(s.game, player_id)), player_id,
                  go(s.game, player_id).ret, sh, seen)

\* handle_play from play_card to the broadcast of "played"; r is what
\* play_card returned.
play_scored(s, player_id, r) ==
    [s EXCEPT !.game = [r.g EXCEPT !.score[player_id] = @ + r.points],
              !.ev.play_points = r.points,
              !.ev.play_base = r.base,
              !.ev.play_total = r.g.pegging_total,
              !.ev.last_card = r.was_last_card,
              !.ev.bonus = r.bonus]

\* handle_play after that.
after_play(s1, player_id, sh) ==
    IF get_winner(s1) # None THEN end_game_if_needed(s1)
    ELSE next_turn(s1, is_pegging_over(s1.game), player_id, FALSE, sh, {})

\* handle_play whose refusal of a card that is out of range or over 31 still
\* hands the turn to the next player holding cards.
handle_play_skips(s, player_id, card_index, sh) ==
    IF s.server.game_over \/ ~s.server.game THEN [s EXCEPT !.ev.res = "ignored"]
    ELSE IF player_id # s.server.current_player THEN [s EXCEPT !.ev.res = "NotYourTurn"]
    ELSE IF ~can_play_card(s.game, player_id, card_index)
    THEN [s EXCEPT !.ev.res =
             IF card_index < 0 \/ card_index >= Len(s.game.hand[player_id])
             THEN "CannotPlayIndex" ELSE "CannotPlayOver31",
                   !.server.current_player = get_next_active_player(s, player_id, FALSE)]
    ELSE after_play(play_scored(s, player_id, play_card(s.game, player_id, card_index)),
                    player_id, sh)

handle_play(s, player_id, card_index, sh) ==
    IF s.server.game_over \/ ~s.server.game THEN [s EXCEPT !.ev.res = "ignored"]
    ELSE IF player_id # s.server.current_player THEN [s EXCEPT !.ev.res = "NotYourTurn"]
    ELSE IF ~can_play_card(s.game, player_id, card_index)
    THEN [s EXCEPT !.ev.res =
             IF card_index < 0 \/ card_index >= Len(s.game.hand[player_id])
             THEN "CannotPlayIndex" ELSE "CannotPlayOver31"]
    ELSE after_play(play_scored(s, player_id, play_card(s.game, player_id, card_index)),
                    player_id, sh)

\* handle_discard once every connection has an entry; c is what
\* collect_discards did.
discards_collected(s1, c, recaptured, sh) ==
    IF c.raised THEN [s1 EXCEPT !.game = c.g, !.raised = TRUE]
    ELSE maybe_auto_go(
             [s1 EXCEPT !.game = capture_show_hands(c.g),
                        !.server.discards = <<>>,
                        !.server.current_player = c.g.current_player,
                        !.ev.recaptured = recaptured],
             sh, {})

handle_discard(s, player_id, indices, sh) ==
    IF ~s.server.game THEN [s EXCEPT !.ev.res = "ignored"]
    ELSE
    LET discards == DictSet(s.server.discards, player_id, indices)
        s1 == [s EXCEPT !.server.discards = discards]
    IN IF Len(discards) # Cardinality(s.server.connections) THEN s1
       ELSE discards_collected(s1, collect_discards(s.game, discards),
                               DOMAIN s.game.show_hands # {}, sh)

start_game(s, sh) ==
    IF Cardinality(s.server.connections) >= 2
    THEN start_round([s EXCEPT !.game = NewGame(Cardinality(s.server.connections), sh),
                               !.server.game = TRUE,
                               !.server.game_over = FALSE], None, sh)
    ELSE [s EXCEPT !.ev.res = "ignored"]

\* handle_message: msg is [type, indices | card_index].
handle_message(s, player_id, msg, sh) ==
    IF s.server.game_over THEN [s EXCEPT !.ev.res = "GameAlreadyEnded"]
    ELSE CASE msg.type = "start" -> start_game(s, sh)
           [] msg.type = "discard" -> handle_discard(s, player_id, msg.indices, sh)
           [] msg.type = "play" -> handle_play(s, player_id, msg.card_index, sh)
           [] msg.type = "go" -> handle_go(s, player_id, FALSE, sh, {})

\* How CribbageServer.handler leaves handle_message: an exception ends the
\* loop, and the finally clause drops the connection.
handler_exit(s1, player_id) ==
    IF s1.raised
    THEN [s1 EXCEPT !.server.connections = @ \ {player_id}, !.ev.res = "raised"]
    ELSE s1

\* One message through CribbageServer.handler.
handler_message(s, player_id, msg, sh) ==
    handler_exit(
        handle_message([s EXCEPT !.ev = [NoEvent EXCEPT !.cmd = msg.type,
                                                       !.who = player_id,
                                                       !.res = "applied"],
                                 !.raised = FALSE],
                       player_id, msg, sh),
        player_id)

\* ------------------------------------------------------------------ state
VARIABLES server, game, ev, extra, steps, tasks

vars == <<server, game, ev, extra, steps, tasks>>

\* Where the handler task of a connection stands: idle in its message loop,
\* or suspended in an await of broadcast (see the interleaved handlers below).
Idle == [pc |-> "idle", player_id |-> None, show_phase |-> FALSE]

Cur == [server |-> server, game |-> game, ev |-> ev, raised |-> FALSE]

\* The state of a server whose session is some rounds old: both clients
\* connected, scores from LateScores, a round just dealt by start_round.
LateState(late, dealer, sh) ==
    start_round([server |-> [NewServer EXCEPT !.connections = Seats,
                                              !.next_player_id = Cardinality(Seats),
                                              !.game = TRUE],
                 game |-> [NewGame(Cardinality(Seats), sh) EXCEPT
                              !.score = [p \in DOMAIN @ |-> late[p + 1]]],
                 ev |-> NoEvent,
                 raised |-> FALSE], dealer, sh)

InitFresh ==
    /\ server = NewServer
    /\ game = NoGame
    /\ ev = NoEvent

InitLate ==
    \E late \in LateScores, sh \in Shuffles :
        LET s == LateState(late, 1, sh)
        IN /\ server = s.server
           /\ game = s.game
           /\ ev = NoEvent

Init ==
    /\ InitFresh \/ InitLate
    /\ extra = 0
    /\ steps = 0
    /\ tasks = [p \in Seats |-> Idle]

\* A command of the straight line of a round: the first start, a seat's one
\* discard before any card is played, a play once the discards are collected.
Straight(player_id, msg) ==
    CASE msg.type = "start" -> ~server.game
      [] msg.type = "discard" ->
            /\ server.game
            /\ DOMAIN game.show_hands = {}
            /\ game.last_played_player = None
            /\ \A k \in 1..Len(server.discards) : server.discards[k].pid # player_id
      [] msg.type = "play" -> DOMAIN game.show_hands # {}
      [] msg.type = "go" -> FALSE

\* The handler of player_id receives msg and runs to completion; sh is the
\* order random.shuffle gives the deck if the handler deals.
Receive(player_id, msg) ==
    /\ player_id \in server.connections
    /\ \E sh \in Shuffles :
       \E s \in {handler_message(Cur, player_id, msg, sh)} :
       \E applied \in {s.ev.res \in {"applied", "raised"}} :
       \E off \in {applied /\ ~Straight(player_id, msg)} :
           /\ applied => steps < MaxSteps
           /\ off => extra < MaxExtra
           /\ server' = s.server
           /\ game' = s.game
           /\ ev' = s.ev
           /\ steps' = IF applied THEN steps + 1 ELSE steps
           /\ extra' = IF off THEN extra + 1 ELSE extra
           /\ UNCHANGED tasks

\* CribbageServer.handler up to its message loop.
Connect ==
    /\ server.next_player_id \in Seats
    /\ server' = [server EXCEPT !.connections = @ \cup {server.next_player_id},
                                !.next_player_id = @ + 1]
    /\ ev' = [NoEvent EXCEPT !.cmd = "connect", !.who = server.next_player_id,
                             !.res = "applied"]
    /\ UNCHANGED <<game, extra, steps, tasks>>

\* The client closes: the message loop ends and the finally clause runs.
Disconnect(player_id) ==
    /\ player_id \in server.connections
    /\ extra < MaxExtra
    /\ server' = [server EXCEPT !.connections = @ \ {player_id}]
    /\ ev' = [NoEvent EXCEPT !.cmd = "disconnect", !.who = player_id, !.res = "applied"]
    /\ extra' = extra + 1
    /\ UNCHANGED <<game, steps, tasks>>

Start(player_id) == Receive(player_id, [type |-> "start"])

Discard(player_id, indices) ==
    Receive(player_id, [type |-> "discard", indices |-> indices])

Play(player_id, card_index) ==
    Receive(player_id, [type |-> "play", card_index |-> card_index])

Go(player_id) == Receive(player_id, [type |-> "go"])

Next ==
    \/ Connect
    \/ \E p \in Seats : Disconnect(p)
    \/ \E p \in Seats : Start(p)
    \/ \E p \in Seats, ind \in DiscardChoices : Discard(p, ind)
    \/ \E p \in Seats, i \in PlayIndices : Play(p, i)
    \/ \E p \in Seats : Go(p)

Spec == Init /\ [][Next]_vars

\* ------------------------------------------------------------------ interleaved handlers
\* Each connection has its own handler task on one event loop.  A task gives
\* up the loop where it awaits broadcast (asyncio.gather always suspends its
\* caller), and any other task with a message waiting may then run.  Below,
\* handle_play and handle_go are cut at those awaits; the show with the deal
\* that follows it is kept in one piece.

\* handle_message for a play, up to the broadcast of "played".
a_play_start(s, player_id, card_index) ==
    IF s.server.game_over THEN [s |-> [s EXCEPT !.ev.res = "GameAlreadyEnded"], f |-> Idle]
    ELSE IF ~s.server.game THEN [s |-> [s EXCEPT !.ev.res = "ignored"], f |-> Idle]
    ELSE IF player_id # s.server.current_player
    THEN [s |-> [s EXCEPT !.ev.res = "NotYourTurn"], f |-> Idle]
    ELSE IF ~can_play_card(s.game, player_id, card_index)
    THEN [s |-> [s EXCEPT !.ev.res = "CannotPlay"], f |-> Idle]
    ELSE [s |-> play_scored(s, player_id, play_card(s.game, player_id, card_index)),
          f |-> [Idle EXCEPT !.pc = "play_sent", !.player_id = player_id]]

\* The end of handle_play and of both branches of handle_go, up to the
\* broadcast of the turn: as next_turn, with maybe_auto_go still to run.
a_turn(s, show, start, include_start, sh) ==
    IF show \/ get_next_active_player(s, start, include_start) = None
    THEN [s |-> trigger_show_phase(s, sh), f |-> Idle]
    ELSE [s |-> [s EXCEPT !.server.current_player =
                              get_next_active_player(s, start, include_start)],
          f |-> [Idle EXCEPT !.pc = "auto"]]

\* handle_play after the broadcast of "played".
a_play_sent(s, f, sh) ==
    IF get_winner(s) # None THEN [s |-> end_game_if_needed(s), f |-> Idle]
    ELSE a_turn(s, is_pegging_over(s.game), f.player_id, FALSE, sh)

\* handle_go after Game.go, up to its first broadcast; s1 is the state with
\* the go applied and ret the tuple go returned.
a_go_sent(s1, player_id, ret, sh) ==
    IF ret[1] # None
    THEN [s |-> s1, f |-> [Idle EXCEPT !.pc = "go_end", !.show_phase = ret[4]]]
    ELSE IF ret[3] /\ ret[4] THEN [s |-> trigger_show_phase(s1, sh), f |-> Idle]
    ELSE [s |-> s1, f |-> [Idle EXCEPT !.pc = "go_pass", !.player_id = player_id]]

\* handle_go up to its first broadcast.
a_go_start(s, player_id, sh) ==
    IF s.server.game_over \/ ~s.server.game THEN [s |-> [s EXCEPT !.ev.res = "ignored"], f |-> Idle]
    ELSE IF player_id # s.server.current_player
    THEN [s |-> [s EXCEPT !.ev.res = "NotYourTurn"], f |-> Idle]
    ELSE a_go_sent(go_scored(s, go(s.game, player_id)), player_id,
                   go(s.game, player_id).ret, sh)

\* handle_go after the broadcast of "pegging_round_end".
a_go_end(s, f, sh) == a_turn(s, f.show_phase, s.game.last_played_player, TRUE, sh)

\* handle_go after the broadcast of "go".
a_go_pass(s, f, sh) == a_turn(s, FALSE, f.player_id, FALSE, sh)

\* maybe_auto_go after the broadcast of the turn.
a_auto(s, sh) ==
    IF ~s.server.game \/ s.server.current_player = None \/ s.server.game_over
    THEN [s |-> s, f |-> Idle]
    ELSE LET player_id == s.server.current_player IN
         IF Len(s.game.hand[player_id]) = 0 THEN [s |-> s, f |-> Idle]
         ELSE IF has_playable_card(s.game, player_id) THEN [s |-> s, f |-> Idle]
         ELSE a_go_start([s EXCEPT !.ev.autos = @ + 1], player_id, sh)

\* The states in which the interleaved handlers start: a game begun by two
\* connected clients whose discards have both been collected.
Seated ==
    [server |-> [NewServer EXCEPT !.connections = Seats,
                                  !.next_player_id = Cardinality(Seats)],
     game |-> NoGame, ev |-> NoEvent, raised |-> FALSE]

RECURSIVE RunAll(_, _, _)
RunAll(s, msgs, sh) ==
    IF Len(msgs) = 0 THEN s
    ELSE RunAll(handler_message(s, msgs[1].who, msgs[1].msg, sh), Tail(msgs), sh)

AfterDiscards(sh, d0, d1) ==
    RunAll(Seated,
           <<[who |-> 0, msg |-> [type |-> "start"]],
             [who |-> 0, msg |-> [type |-> "discard", indices |-> d0]],
             [who |-> 1, msg |-> [type |-> "discard", indices |-> d1]]>>,
           sh)

InitAsync ==
    /\ \E sh \in Shuffles, d0 \in DiscardChoices, d1 \in DiscardChoices :
          \E s \in {AfterDiscards(sh, d0, d1)} :
              /\ server = s.server
              /\ game = s.game
    /\ ev = NoEvent
    /\ extra = 0
    /\ steps = 0
    /\ tasks = [p \in Seats |-> Idle]

\* The task of player_id takes a message off its connection.
AsyncReceive(player_id, msg) ==
    /\ player_id \in server.connections
    /\ tasks[player_id].pc = "idle"
    /\ \E sh \in Shuffles :
       \E s0 \in {[Cur EXCEPT !.ev = [NoEvent EXCEPT !.cmd = msg.type, !.who = player_id,
                                                      !.res = "applied"]]} :
       \E r \in {IF msg.type = "play" THEN a_play_start(s0, player_id, msg.card_index)
                 ELSE IF s0.server.game_over
                      THEN [s |-> [s0 EXCEPT !.ev.res = "GameAlreadyEnded"], f |-> Idle]
                      ELSE a_go_start(s0, player_id, sh)} :
       \E applied \in {r.s.ev.res = "applied"} :
           /\ applied => steps < MaxSteps
           /\ (applied /\ msg.type = "go") => extra < MaxExtra
           /\ server' = r.s.server
           /\ game' = r.s.game
           /\ ev' = r.s.ev
           /\ tasks' = [tasks EXCEPT ![player_id] = r.f]
           /\ steps' = IF applied THEN steps + 1 ELSE steps
           /\ extra' = IF applied /\ msg.type = "go" THEN extra + 1 ELSE extra

AsyncPlay(player_id, card_index) ==
    AsyncReceive(player_id, [type |-> "play", card_index |-> card_index])

AsyncGo(player_id) == AsyncReceive(player_id, [type |-> "go"])

\* The event loop resumes the suspended task of player_id.
AsyncResume(player_id) ==
    /\ tasks[player_id].pc # "idle"
    /\ \E sh \in Shuffles :
       \E f \in {tasks[player_id]} :
       \E s0 \in {[Cur EXCEPT !.ev = [NoEvent EXCEPT !.cmd = "resume", !.who = player_id,
                                                      !.res = "applied"]]} :
       \E r \in {CASE f.pc = "play_sent" -> a_play_sent(s0, f, sh)
                   [] f.pc = "auto" -> a_auto(s0, sh)
                   [] f.pc = "go_end" -> a_go_end(s0, f, sh)
                   [] f.pc = "go_pass" -> a_go_pass(s0, f, sh)} :
           /\ server' = r.s.server
           /\ game' = r.s.game
           /\ ev' = r.s.ev
           /\ tasks' = [tasks EXCEPT ![player_id] = r.f]
           /\ UNCHANGED <<extra, steps>>

NextAsync ==
    \/ \E p \in Seats, i \in PlayIndices : AsyncPlay(p, i)
    \/ \E p \in Seats : AsyncGo(p)
    \/ \E p \in Seats : AsyncResume(p)

SpecAsync == InitAsync /\ [][NextAsync]_vars

\* ------------------------------------------------------------------ the show alone
\* Game.score_show_round called on games that stand at the end of pegging.
\* The cards player 0's snapshot and the starter are drawn from: the four
\* fives, two jacks, two threes, and a 4, a 6 and a 7 (as card indices).
ShowCards == {4, 17, 30, 43, 49, 10, 2, 15, 3, 18, 45}
\* The snapshot of player 1 and the crib (AH 2D 3C KS and 8H 9D 10C QS).
OtherSnapshot == <<0, 14, 28, 51>>
ShowCrib == <<7, 21, 35, 50>>

\* A game whose pegging is over: hands played out, the snapshot and the
\* crib from the discards, the starter drawn, the other cards in the deck.
GameAtShow(snapshot, starter, dealer) ==
    LET used == {snapshot[i] : i \in 1..4} \cup {OtherSnapshot[i] : i \in 1..4}
                \cup {ShowCrib[i] : i \in 1..4} \cup {starter}
    IN [NewGame(Cardinality(Seats), <<1, 0>>) EXCEPT
            !.deck = SortedSeq((0..51) \ used),
            !.crib = ShowCrib,
            !.starter = starter,
            !.show_hands = [pid \in Seats |-> IF pid = 0 THEN snapshot
                                                  ELSE OtherSnapshot],
            !.dealer = dealer,
            !.current_player = (dealer + 1) % Cardinality(Seats),
            !.last_played_player = dealer]

InitShow ==
    /\ \E cards \in SUBSET ShowCards :
          /\ Cardinality(cards) = 4
          /\ \E starter \in ShowCards \ cards, dealer \in Seats :
                game = GameAtShow(SortedSeq(cards), starter, dealer)
    /\ server = [NewServer EXCEPT !.connections = Seats,
                                  !.next_player_id = Cardinality(Seats),
                                  !.game = TRUE,
                                  !.current_player = None]
    /\ ev = NoEvent
    /\ extra = 0
    /\ steps = 0
    /\ tasks = [p \in Seats |-> Idle]

\* One call of Game.score_show_round; ev keeps the map it returned.
ScoreShowRound ==
    /\ \E r \in {score_show_round(game)} :
          /\ game' = r.g
          /\ ev' = [NoEvent EXCEPT !.cmd = "show", !.res = "applied",
                                   !.show = TRUE,
                                   !.show_points = r.show_points]
    /\ UNCHANGED <<server, extra, steps, tasks>>

NextShow == ScoreShowRound

SpecShow == InitShow /\ [][NextShow]_vars

\* ------------------------------------------------------------------ three players
\* A session of three clients: the turn order among three ids, and what a
\* disconnection does to it, cannot be seen with two.
ThreeSeats == {0, 1, 2}
\* What the three discard (one card each, or two).
ThreeDiscards == {<<0>>, <<0, 1>>}

\* Three clients connected, no game yet.
SeatedThree ==
    [server |-> [NewServer EXCEPT !.connections = ThreeSeats,
                                  !.next_player_id = Cardinality(ThreeSeats)],
     game |-> NoGame,
     ev |-> NoEvent,
     raised |-> FALSE]

\* The game is started and every player has sent the same discard d.
InitThree ==
    /\ \E sh \in Shuffles, d \in ThreeDiscards :
          \E s \in {RunAll(SeatedThree,
                           <<[who |-> 0, msg |-> [type |-> "start"]],
                             [who |-> 0, msg |-> [type |-> "discard", indices |-> d]],
                             [who |-> 1, msg |-> [type |-> "discard", indices |-> d]],
                             [who |-> 2, msg |-> [type |-> "discard", indices |-> d]]>>,
                           sh)} :
              /\ server = s.server
              /\ game = s.game
    /\ ev = NoEvent
    /\ extra = 0
    /\ steps = 0
    /\ tasks = [p \in Seats |-> Idle]

NextThree ==
    \/ \E p \in ThreeSeats : Disconnect(p)
    \/ \E p \in ThreeSeats, i \in PlayIndices : Play(p, i)
    \/ \E p \in ThreeSeats : Go(p)

SpecThree == InitThree /\ [][NextThree]_vars

\* ------------------------------------------------------------------ pegging alone
\* A play handled in the middle of a sub-round, for pegging sequences that
\* one shuffle does not produce: runs in and out of order, streaks of equal
\* ranks, totals of 15 and 31.
\* The cards the sequence and the card to play are drawn from: 3H 4H,
\* 2D 5D JD, 3C 6C, 3S 10S (as card indices).
PegCards == {2, 3, 14, 17, 23, 28, 31, 41, 48}
\* The longest sequence drawn.
MaxPegLen == 3

\* The sequences of up to MaxPegLen different cards of PegCards.
PegSequences ==
    UNION {{seq \in [1..k -> PegCards] : \A i, j \in 1..k : i # j => seq[i] # seq[j]} :
           k \in 0..MaxPegLen}

\* A two-player game in the middle of pegging: player 1 has played the
\* cards of seq and holds the king of spades, player 0 holds card and has
\* the turn.
GameAtPegging(seq, card) ==
    LET fill == seq \o <<51, 50, 37, 24>>
        snapshots == <<<<card, 8, 7, 6>>, SubSeq(fill, 1, 4)>>
        crib == <<11, 12, 25, 38>>
        used == UNION {{snapshots[p][i] : i \in 1..4} : p \in 1..2}
                \cup {crib[i] : i \in 1..4} \cup {21}
    IN [NewGame(Cardinality(Seats), <<1, 0>>) EXCEPT
            !.hand = [p \in Seats |-> IF p = 0 THEN <<card>> ELSE <<51>>],
            !.deck = SortedSeq((0..51) \ used),
            !.crib = crib,
            !.starter = 21,
            !.show_hands = [p \in Seats |-> snapshots[p + 1]],
            !.dealer = 1,
            !.current_player = 0,
            !.pegging_cards = seq,
            !.pegging_total = SumOver([i \in 1..Len(seq) |-> VALUES(CardRank(seq[i]))],
                                      1..Len(seq)),
            !.last_played_player = IF Len(seq) = 0 THEN None ELSE 1]

InitPeg ==
    /\ \E seq \in PegSequences :
       \E card \in PegCards \ {seq[i] : i \in 1..Len(seq)} :
       \E g \in {GameAtPegging(seq, card)} :
          /\ g.pegging_total + VALUES(CardRank(card)) <= 31
          /\ game = g
    /\ server = [NewServer EXCEPT !.connections = Seats,
                                  !.next_player_id = Cardinality(Seats),
                                  !.game = TRUE,
                                  !.current_player = 0]
    /\ ev = NoEvent
    /\ extra = 0
    /\ steps = 0
    /\ tasks = [p \in Seats |-> Idle]

\* The plays of the rest of the round.
PegPlay(player_id, card_index) ==
    /\ ~ev.show
    /\ Play(player_id, card_index)

NextPeg == \E p \in Seats, i \in PlayIndices : PegPlay(p, i)

SpecPeg == InitPeg /\ [][NextPeg]_vars

\* ------------------------------------------------------------------ properties
Players == 0..(game.num_players - 1)

Holders == {p \in Players : Len(game.hand[p]) > 0}

GoProcessed == (ev.cmd = "go" /\ ev.res = "applied") \/ ev.autos > 0

PlayRejected == ev.cmd = "play" /\ ev.res \in {"NotYourTurn", "CannotPlayIndex", "CannotPlayOver31"}

\* C1: in every reachable state the pegging total lies in 0..31.
C1_TotalWithinCap == game.pegging_total >= 0 /\ game.pegging_total <= 31

\* A play took the total to exactly 31 (the sub-round it closed recorded 31).
C1_Witness ==
    /\ ev.cmd = "play" /\ ev.res = "applied" /\ ev.play_total = 31
    /\ C1_TotalWithinCap

\* C2: when a go ends the sub-round, last_played_player gains exactly 1 point
\* if the total was not 31 and 0 points if it was 31 (beyond what the play of
\* the same handler earned the scorer).
C2_GoPoint ==
    [][(/\ server.game
        /\ ev'.cmd \in {"play", "go", "discard"}
        /\ Len(ev'.ends) = 1
        /\ ~ev'.show /\ ~ev'.round)
       => LET e == ev'.ends[1]
              played == IF ev'.play_points # None /\ ev'.who = e.scorer
                        THEN ev'.play_points ELSE 0
          IN game'.score[e.scorer] = game.score[e.scorer] + played
                                        + (IF e.total = 31 THEN 0 ELSE 1)]_vars

\* C3: once a handler has completed with some score at 121 or more, the game
\* is marked over and no turn is assigned.
C3_ThresholdChecked ==
    (server.game /\ \E p \in Players : game.score[p] >= 121)
        => (server.game_over /\ server.current_player = None)

\* C4: get_winner is none below 121; the dealer when the dealer has 121 or
\* more; else the highest scorer, the smallest id among equals.
ClaimedWinner ==
    LET finalists == {p \in Players : game.score[p] >= 121}
    IN IF finalists = {} THEN None
       ELSE IF game.dealer \in finalists THEN game.dealer
       ELSE SetMin({p \in finalists : \A q \in finalists : game.score[q] <= game.score[p]})

C4_WinnerRule == server.game => get_winner(Cur) = ClaimedWinner

\* C5: when a handler that processed a go completes (on a round where a card
\* has been played), the holders of cards are not all in the pass set, and a
\* sub-round it ended has left total 0, sequence empty, pass set empty.
C5_ResetAfterAllPassed ==
    (server.game /\ GoProcessed /\ ~ev.show /\ game.last_played_player # None)
        => /\ ~(Holders # {} /\ Holders \subseteq game.players_passed)
           /\ Len(ev.ends) > 0 =>
                 /\ game.pegging_total = 0
                 /\ game.pegging_cards = <<>>
                 /\ game.players_passed = {}

\* A go closed a sub-round whose total was above 0.
C5_Witness ==
    /\ server.game /\ GoProcessed /\ ~ev.show
    /\ Len(ev.ends) = 1 /\ ev.ends[1].total > 0
    /\ game.pegging_total = 0 /\ Holders # {}

\* C6: the play that empties every hand earns its player the points of
\* calculate_pegging_points plus exactly one point when the total is not 31
\* and plus nothing when it is 31; nothing else reaches that score before the
\* show is added.
C6_LastCardOnce ==
    [][(server.game /\ ev'.cmd = "play" /\ ev'.res = "applied" /\ ev'.last_card)
       => LET p == ev'.who
              shown == IF ev'.show /\ p \in DOMAIN ev'.show_points
                       THEN ev'.show_points[p] ELSE 0
          IN /\ game'.score[p] = game.score[p] + ev'.play_base
                                    + (IF ev'.play_total # 31 THEN 1 ELSE 0) + shown
             /\ ev'.ends = <<>>]_vars

\* The final card of a round scored (a fifteen, pair or run) and took the bonus.
C6_Witness ==
    /\ ev.cmd = "play" /\ ev.res = "applied" /\ ev.last_card
    /\ ev.play_total # 31 /\ ev.play_base > 0 /\ ev.bonus

\* C7: a rejected play leaves the server and the game as they were.
C7_RejectedPlayNoChange ==
    [][PlayRejected' => (server' = server /\ game' = game)]_vars

\* A play was refused because the card would take the total past 31.
C7_Witness == ev.cmd = "play" /\ ev.res = "CannotPlayOver31"

\* C8: a discard from a player whose discard is already recorded changes
\* neither the recorded discards nor the game.
C8_DuplicateDiscardRejected ==
    [][(/\ ev'.cmd = "discard" /\ ev'.res \in {"applied", "raised"}
        /\ \E k \in 1..Len(server.discards) : server.discards[k].pid = ev'.who)
       => (server'.discards = server.discards /\ game' = game)]_vars

\* C10: once a card of the round has been played, the snapshot stays as it
\* is until the show.
C10_SnapshotOnce ==
    [][(/\ server.game /\ game.last_played_player # None
        /\ ~ev'.show /\ ~ev'.round)
       => game'.show_hands = game.show_hands]_vars

\* C9: while the handler task of one connection is between the first state
\* change of its command and the end of that command's consequences, no
\* command of another connection is applied to the game.
C9_NoCommandMidTransition ==
    [][(/\ steps' = steps + 1
        /\ \E q \in Seats : q # ev'.who /\ tasks[q].pc # "idle")
       => game' = game]_vars

\* C11: a play or a go is applied only when the discards of the round have
\* been collected, and no discards are collected once a card of the round
\* has been played.
C11_DiscardsBeforePlay ==
    [][/\ (/\ server.game
           /\ ev'.cmd \in {"play", "go"}
           /\ ev'.res \in {"applied", "raised"})
          => DOMAIN game.show_hands # {}
       /\ (/\ server.game
           /\ ev'.cmd = "discard"
           /\ Len(game'.crib) > Len(game.crib))
          => game.last_played_player = None]_vars

\* C12: while some player of a dealt round still holds the cards to discard
\* (with two players, more than four cards), the starter is unset.
C12_StarterAfterDiscards ==
    (server.game /\ \E p \in Players : Len(game.hand[p]) > 4)
        => game.starter = None

\* C13: every command a handler receives is either applied or answered with
\* an error to its sender; none is dropped without any answer.
C13_NeverSilentlyIgnored ==
    ev.cmd \in {"start", "discard", "play", "go"} => ev.res # "ignored"

\* C14: no step lowers the score of any player.
C14_ScoreMonotonic ==
    [][\A p \in (DOMAIN game.score) \cap (DOMAIN game'.score) :
           game'.score[p] >= game.score[p]]_vars

\* The cards the game holds outside the pegging sequence: hands, crib,
\* starter and deck.
CardCount(g) ==
    SumOver([p \in DOMAIN g.hand |-> Len(g.hand[p])], DOMAIN g.hand)
    + Len(g.crib) + (IF g.starter # None THEN 1 ELSE 0) + Len(g.deck)

\* C15 as stated: while a game is running, hands, crib, starter and deck
\* hold 52 cards.
C15_CardCount52 ==
    (server.game /\ ~server.game_over) => CardCount(game) = 52

\* C15: hands, crib, starter and deck hold 52 cards when a round is dealt;
\* within the round every card played lowers that count by exactly one and
\* no other step changes it.
C15_CardCountLessPlayed ==
    /\ server.game => CardCount(game) = 52
    /\ [][server'.game =>
            IF ev'.round THEN CardCount(game') = 52
            ELSE (server.game /\ ~ev'.show) =>
                    CardCount(game') = CardCount(game)
                        - (IF ev'.play_total # None THEN 1 ELSE 0)]_vars

C15_Witness ==
    /\ server.game /\ ~server.game_over
    /\ ev.cmd = "play" /\ ev.play_total # None /\ ~ev.show
    /\ Len(game.crib) = 4
    /\ CardCount(game) = 49

\* C16: a disconnect leaves the game as it is, and the player who left is
\* still found by get_next_active_player while holding cards.
C16_DisconnectKeepsRotation ==
    [][ev'.cmd = "disconnect" =>
          /\ game' = game
          /\ (server.game /\ Len(game.hand[ev'.who]) > 0) =>
                get_next_active_player(
                    [server |-> server', game |-> game', ev |-> ev', raised |-> FALSE],
                    ev'.who, TRUE) = ev'.who]_vars

\* The pegging points the last handler gave player p: the points of its
\* play and the go and last-card points of the sequences it ended.
Pegged(e, p) ==
    (IF e.who = p /\ e.play_points # None THEN e.play_points ELSE 0)
    + SumOver([k \in 1..Len(e.ends) |->
                  IF e.ends[k].scorer = p THEN e.ends[k].points ELSE 0],
              1..Len(e.ends))

\* Player p is credited at the show with exactly `credit`: the returned map
\* says so and the score rose by it on top of the pegging points of the step.
ShowCredited(p, credit) ==
    /\ p \in DOMAIN ev'.show_points
    /\ ev'.show_points[p] = credit
    /\ game'.score[p] = game.score[p] + Pegged(ev', p) + credit

C18_SecondShowEmpty ==
    [][(ev.show /\ ev'.show)
       => (DOMAIN ev'.show_points = {} /\ game'.score = game.score)]_vars

C18_Witness ==
    /\ ev.cmd = "show" /\ ev.show
    /\ DOMAIN ev.show_points = {}
    /\ \A p \in Players : game.score[p] > 0
    /\ Len(game.crib) = 0 /\ DOMAIN game.show_hands = {}

\* The hand of the 29: three fives and a jack, the starter the fourth five,
\* in the suit of the jack.
MaximalHand(hand, starter) ==
    /\ Cardinality({i \in 1..Len(hand) : CardRank(hand[i]) = "5"}) = 3
    /\ CardRank(starter) = "5"
    /\ \E i \in 1..Len(hand) :
          CardRank(hand[i]) = "J" /\ CardSuit(hand[i]) = CardSuit(starter)

\* C20: score_show_cards gives 29 for a snapshot of three fives and a jack
\* with the fourth five as starter.
C20_MaximalHand29 ==
    \A p \in DOMAIN game.show_hands :
        MaximalHand(game.show_hands[p], game.starter)
            => score_show_cards(Append(game.show_hands[p], game.starter)) = 29

\* C19: after the show, if some score has reached 121 the game is over, no
\* round is dealt and nobody has the turn; otherwise a round is dealt whose
\* dealer is the player after the previous dealer.
C19_AfterShow ==
    [][ev'.show =>
          IF \E p \in Players : game'.score[p] >= 121
          THEN /\ server'.game_over
               /\ ~ev'.round
               /\ server'.current_player = None
               /\ game'.dealer = game.dealer
          ELSE /\ ~server'.game_over
               /\ ev'.round
               /\ game'.dealer = (game.dealer + 1) % game.num_players
               /\ \A p \in Players : Len(game'.hand[p]) = 6]_vars

C19_Witness ==
    /\ ev.show /\ ev.round /\ ~server.game_over
    /\ \A p \in Players : Len(game.hand[p]) = 6 /\ game.score[p] < 121
    /\ \E p \in Players : ev.show_points[p] > 0

\* Four cards of ranks 3, 3, 4, 5.
DoubleRunHand(hand) ==
    /\ Len(hand) = 4
    /\ Cardinality({i \in 1..4 : CardRank(hand[i]) = "3"}) = 2
    /\ \E i \in 1..4 : CardRank(hand[i]) = "4"
    /\ \E i \in 1..4 : CardRank(hand[i]) = "5"

\* C21 as stated: count_runs gives 8 for four cards of ranks 3, 3, 4, 5.
C21_DoubleRun8 ==
    \A p \in DOMAIN game.show_hands :
        DoubleRunHand(game.show_hands[p]) => count_runs(game.show_hands[p]) = 8

\* C21: count_runs gives 6 for four cards of ranks 3, 3, 4, 5 (two runs of
\* three); the pair is counted by count_pairs, which gives 2.
C21_DoubleRun6 ==
    \A p \in DOMAIN game.show_hands :
        DoubleRunHand(game.show_hands[p])
            => /\ count_runs(game.show_hands[p]) = 6
               /\ count_pairs(game.show_hands[p]) = 2

C21_Witness ==
    /\ 0 \in DOMAIN game.show_hands
    /\ DoubleRunHand(game.show_hands[0])
    /\ count_runs(game.show_hands[0]) + count_pairs(game.show_hands[0]) = 8

\* What an accepted play of the card at card_index by player_id must make
\* of game g: g1 is the game play_card leaves.
PlayEffect(g, player_id, card_index, g1) ==
    /\ g1.hand[player_id] = RemoveAt(g.hand[player_id], card_index + 1)
    /\ Len(g1.hand[player_id]) = Len(g.hand[player_id]) - 1
    /\ \A q \in DOMAIN g.hand : q # player_id => g1.hand[q] = g.hand[q]
    /\ g1.pegging_cards = Append(g.pegging_cards, g.hand[player_id][card_index + 1])
    /\ g1.pegging_total =
          g.pegging_total + VALUES(CardRank(g.hand[player_id][card_index + 1]))
    /\ g1.last_played_player = player_id
    /\ g1.players_passed = {}

\* C22: in every state of a game, whichever card a player may play under
\* the cap, play_card removes exactly that card from that player's hand,
\* appends it to the pegging sequence, adds its value to the total, makes
\* the player the last to have played and empties the pass set.
C22_PlayEffect ==
    server.game =>
        \A p \in Players : \A i \in 0..(Len(game.hand[p]) - 1) :
            can_play_card(game, p, i)
                => PlayEffect(game, p, i, play_card(game, p, i).g)

C22_Witness ==
    /\ server.game /\ ~server.game_over
    /\ ev.cmd = "play" /\ ev.play_total # None
    /\ game.players_passed # {} /\ Len(game.pegging_cards) > 0
    /\ server.current_player \in Players
    /\ \E i \in 1..(Len(game.hand[server.current_player]) - 1) :
          /\ can_play_card(game, server.current_player, i)
          /\ game.hand[server.current_player][i + 1]
                # game.hand[server.current_player][1]

\* The first player holding cards in game g, walking the player ids
\* cyclically upwards from start, start itself first.
FirstHolderFrom(g, start) ==
    LET n == g.num_players
        k == SetMin({d \in 0..(n - 1) : Len(g.hand[(start + d) % n]) > 0})
    IN (start + k) % n

\* A handler ended a sub-round and left the play phase running with cards
\* still held.
SubRoundEnded ==
    /\ ev'.res = "applied" /\ Len(ev'.ends) > 0
    /\ ~ev'.show /\ ~server'.game_over
    /\ \E p \in Players : Len(game'.hand[p]) > 0

\* C23: when a sub-round ends with cards still held, the turn goes to the
\* scorer if the scorer holds cards, otherwise to the first holder after
\* the scorer.
C23_NextFromScorer ==
    [][SubRoundEnded =>
          server'.current_player = FirstHolderFrom(game', game'.last_played_player)]_vars

\* The same for handlers that run while every player is connected.
C23_NextFromScorerConnected ==
    [][(SubRoundEnded /\ server'.connections = Players) =>
          server'.current_player = FirstHolderFrom(game', game'.last_played_player)]_vars

\* The order in which a cyclic walk over the sorted ids examines them: from
\* start itself when include_start, otherwise from the id after start with
\* start last; from the head of the list when start is not among the ids.
WalkOrder(ids, start, include_start) ==
    LET n == Len(ids)
    IN IF \E k \in 1..n : ids[k] = start
       THEN LET k == CHOOSE j \in 1..n : ids[j] = start
                first == IF include_start THEN k ELSE k + 1
            IN [j \in 1..n |-> ids[((first - 1 + (j - 1)) % n) + 1]]
       ELSE ids

\* The first id of the walk whose hand is not empty, None if there is none.
FirstHolderOf(order, hand) ==
    LET hits == {j \in 1..Len(order) : Len(hand[order[j]]) > 0}
    IN IF hits = {} THEN None ELSE order[SetMin(hits)]

\* C24: get_next_active_player returns the first card-holder of the walk,
\* and None exactly when no seated player holds a card.
C24_NextActiveWalk ==
    server.game =>
        \A start \in ThreeSeats \cup {None}, include_start \in BOOLEAN :
            /\ get_next_active_player(Cur, start, include_start)
                  = FirstHolderOf(WalkOrder(SortedSeq(server.connections),
                                            start, include_start),
                                  game.hand)
            /\ get_next_active_player(Cur, start, include_start) = None
                  <=> \A p \in server.connections : Len(game.hand[p]) = 0

\* The walk the code makes: when start is not among the ids, the head of
\* the list stands in for it, first when include_start and last otherwise.
WalkOrderFromIndex(ids, start, include_start) ==
    LET n == Len(ids)
        k == IF \E j \in 1..n : ids[j] = start
             THEN CHOOSE j \in 1..n : ids[j] = start ELSE 1
        first == IF include_start THEN k ELSE k + 1
    IN [j \in 1..n |-> ids[((first - 1 + (j - 1)) % n) + 1]]

\* get_next_active_player returns the first card-holder of that walk.
C24_NextActiveWalkFromIndex ==
    (server.game /\ server.connections # {}) =>
        \A start \in ThreeSeats \cup {None}, include_start \in BOOLEAN :
            /\ get_next_active_player(Cur, start, include_start)
                  = FirstHolderOf(WalkOrderFromIndex(SortedSeq(server.connections),
                                                     start, include_start),
                                  game.hand)
            /\ get_next_active_player(Cur, start, include_start) = None
                  <=> \A p \in server.connections : Len(game.hand[p]) = 0

\* The number of cards at the end of the sequence that share the rank of
\* the last one.
TrailingStreak(cards) ==
    SetMax({m \in 1..Len(cards) :
               \A j \in (Len(cards) - m + 1)..Len(cards) :
                   CardRank(cards[j]) = CardRank(cards[Len(cards)])})

\* The last `length` cards have pairwise different ranks that form
\* `length` consecutive rank numbers.
TrailingRun(cards, length) ==
    LET tail == SubSeq(cards, Len(cards) - length + 1, Len(cards))
        low == SetMin({rank_to_num(CardRank(tail[j])) : j \in 1..length})
    IN /\ \A i, j \in 1..length :
             i # j => CardRank(tail[i]) # CardRank(tail[j])
       /\ \A d \in 0..(length - 1) :
             \E j \in 1..length : rank_to_num(CardRank(tail[j])) = low + d

\* The points of a play that leaves the sequence `cards` at `total`.
ClaimedPeggingPoints(cards, total) ==
    (IF total \in {15, 31} THEN 2 ELSE 0)
    + (IF TrailingStreak(cards) >= 2 THEN 2 * (TrailingStreak(cards) - 1) ELSE 0)
    + (IF \E l \in 3..Len(cards) : TrailingRun(cards, l)
       THEN SetMax({l \in 3..Len(cards) : TrailingRun(cards, l)}) ELSE 0)

\* The card the last handler took out of the hand of the player who played.
PlayedCard ==
    CHOOSE c \in 0..51 :
        /\ \E k \in 1..Len(game.hand[ev'.who]) : game.hand[ev'.who][k] = c
        /\ \A k \in 1..Len(game'.hand[ev'.who]) : game'.hand[ev'.who][k] # c

\* C25: the points calculate_pegging_points gives for a play are 2 for a
\* total of 15 or 31, plus 2 * (m - 1) for a trailing streak of m >= 2 equal
\* ranks, plus the length of the longest trailing run of 3 or more.
C25_PeggingPoints ==
    [][(ev'.cmd = "play" /\ ev'.play_total # None /\ ~ev'.round)
       => ev'.play_base
             = ClaimedPeggingPoints(Append(game.pegging_cards, PlayedCard),
                                    ev'.play_total)]_vars

C25_Witness ==
    /\ ev.cmd = "play" /\ ev.play_base >= 3
    /\ Len(game.pegging_cards) >= 3
    /\ TrailingRun(game.pegging_cards, 3)

\* The play phase is running: a game not over, the discards collected, a
\* player has the turn.
PlayPhase ==
    /\ server.game /\ ~server.game_over
    /\ DOMAIN game.show_hands # {}
    /\ server.current_player # None

\* C26: whenever a handler has finished and the play phase is running, the
\* player whose turn it is holds a card that fits under 31.
C26_ActorCanPlay ==
    PlayPhase => /\ server.current_player \in Players
                 /\ has_playable_card(game, server.current_player)

\* C27: the pegging total is the sum of the values of the cards in the
\* pegging sequence.
C27_TotalIsSum ==
    game.pegging_total =
        SumOver([i \in 1..Len(game.pegging_cards) |->
                    get_card_value(game.pegging_cards[i])],
                1..Len(game.pegging_cards))

\* The handler of a play ended a sub-round that stood at a positive total:
\* total and sequence are both back at nothing.
C27_Witness ==
    /\ server.game /\ ev.cmd = "play"
    /\ Len(ev.ends) > 0
    /\ Len(game.pegging_cards) = 0 /\ game.pegging_total = 0
    /\ \E k \in 1..Len(ev.ends) : ev.ends[k].total > 0

\* C28: the forced gos that one command sets off come to an end: no handler
\* dies in the mutual recursion of maybe_auto_go and handle_go.
C28_ForcedGosEnd ==
    ~(ev.res = "raised" /\ ev.autos > 0)

\* The same while every player of the game is connected.
C28_ForcedGosEndConnected ==
    (server.game /\ server.connections = Players)
        => ~(ev.res = "raised" /\ ev.autos > 0)

====
